---- MODULE Spec2Model ----
(***************************************************************************)
(* State-machine model of dvc/repo/experiments/queue/local.py:             *)
(* LocalCeleryQueue, the broker-backed experiment queue, together with the *)
(* collaborators it reads and drives: the stash, the celery broker (queued *)
(* and processed message views), the task-result backend, the process      *)
(* manager and the per-revision executor info file; and WorkspaceQueue,    *)
(* the synchronous queue.  Spec is LocalCeleryQueue with put taken write by *)
(* write and get_result read by read beside the worker, SpecConc adds      *)
(* _remove_revs taken turn by turn of its loop, SpecWs is WorkspaceQueue.  *)
(***************************************************************************)
EXTENDS Naturals, Sequences, FiniteSets

\* ------------------------------------------------------------------ bounds

\* Number of experiments put on the queue in one behaviour.
MaxPut == 2

\* Largest number of identifiers handed to one kill() call.
MaxKillIds == 2

\* ------------------------------------------------------- entries and names

\* Stash revisions are strings of characters, modelled as sequences so that
\* "revision starts with identifier" is computed.  The k-th put yields the
\* k-th revision (a stash revision is a fresh commit hash, unique per entry).
AllRevs == << <<"a", "1">>, <<"b", "2">>, <<"b", "3">>, <<"c", "4">>, <<"c", "5">> >>

\* The revisions put in a behaviour and one that never is.
Revs == { AllRevs[i] : i \in 1..(MaxPut + 1) }

NoName == << >>

\* The optional human name of the entry stashed under a revision.
EntryName(rev) == IF rev = <<"a", "1">> THEN <<"n">> ELSE NoName

\* Identifiers a caller may hand to kill: a full revision, the symbolic name
\* of the same entry, an abbreviated revision and an unknown identifier.
Ids == { <<"a", "1">>, <<"n">>, <<"b">>, <<"z">> }

RunExp == "run_exp"
ProcTask == "proc_run"

NoResult == "None"

\* The ExecutorResult the executor of a revision writes to its info file.
ResultOf(rev) == <<"res", rev>>

VARIABLES
    stash,      \* sequence of stashed revisions (the stash queue)
    nput,       \* number of experiments stashed by put() so far
    queued,     \* broker: messages not yet delivered, in order
    processed,  \* broker: delivered messages, in order of delivery
    ready,      \* result backend: task id -> task has reached a terminal state
    info,       \* info file per revision: "none", "started", "result", "collected"
    proc,       \* process manager: revision -> "none", "running", "exited", "killed"
    worker,     \* the queue worker: "down", "up", "stopping"
    current,    \* task id the worker is executing, 0 when it has none
    waiting,    \* the caller blocked in get_result: << >> or <<[rev, tid, timeout]>>
    ret,        \* what the call that has just ended returned or raised; NoRet
                \* once the caller has taken it
    following,  \* the caller blocked in follow: << >> or <<[rev, via]>>, via the
                \* operation it entered by ("follow" or "logs")
    call,       \* the call in progress of an operation taken read by read:
                \* << >> or <<[op, ...]>>
    putting,    \* the put between its two writes: << >> or <<rev>>, the
                \* revision stashed whose message is not sent yet
    wpc,        \* WorkspaceQueue.reproduce: "idle", "get" (about to call get),
                \* "entry" (about to call _reproduce_entry)
    executor,   \* WorkspaceQueue: the executors set up and not cleaned up, in order
    trace,      \* WorkspaceQueue: the events of the current reproduce call
    results     \* WorkspaceQueue: the results mapping of the current reproduce call

\* The callers in the middle of an operation that is not one step.
callVars == << following, call, putting >>

\* The synchronous (workspace) queue in the middle of reproduce().
wsVars == << wpc, executor, trace, results >>

vars == << stash, nput, queued, processed, ready, info, proc,
           worker, current, waiting, ret, callVars, wsVars >>

TaskIds == 1..(MaxPut + 1)

\* ----------------------------------------------------------------- helpers

\* A record of what an operation returned or raised.
Ret(op, args, outcome, result, pairs, missing, requested) ==
    [op |-> op, args |-> args, outcome |-> outcome, result |-> result,
     pairs |-> pairs, missing |-> missing, requested |-> requested]

NoRet == Ret("none", {}, "none", <<NoResult>>, << >>, {}, << >>)

\* _MessageEntry / kombu Message: its task header, its id header and the
\* entry_dict argument it carries.
Message(task, id, rev) == [task |-> task, id |-> id, rev |-> rev]

SeqToSet(s) == { s[i] : i \in 1..Len(s) }

IsRunExp(msg) == msg.task = RunExp

\* The entries of a sequence of messages, in order (QueueEntry.from_dict of
\* the decoded message arguments).
Entries(msgs) == [i \in 1..Len(msgs) |-> msgs[i].rev]

\* ------------------------------------------------------------------- views

\* LocalCeleryQueue._iter_queued: the broker's undelivered messages of this
\* task type.
IterQueuedMsgs == SelectSeq(queued, IsRunExp)

\* LocalCeleryQueue.iter_queued
IterQueued == Entries(IterQueuedMsgs)

\* LocalCeleryQueue._iter_processed: the broker's delivered messages of this
\* task type.
IterProcessed == SelectSeq(processed, IsRunExp)

\* AsyncResult(task_id).ready()
Ready(tid) == ready[tid]

NotReadyMsg(msg) == ~Ready(msg.id)

ReadyMsg(msg) == Ready(msg.id)

\* Variant of _iter_active_tasks without the "not result.ready()" test.
IterActiveTasksAll == IterProcessed

\* LocalCeleryQueue._iter_active_tasks: delivered and not terminal.
IterActiveTasks == SelectSeq(IterProcessed, NotReadyMsg)

\* LocalCeleryQueue._iter_done_tasks: delivered and terminal.
IterDoneTasks == SelectSeq(IterProcessed, ReadyMsg)

\* LocalCeleryQueue.iter_active
IterActive == Entries(IterActiveTasks)

\* Number of times an entry occurs in a sequence of entries.
Count(entries, rev) == Cardinality({ i \in 1..Len(entries) : entries[i] = rev })

\* ExecutorInfo.load_json(infofile).collected
Collected(rev) == info[rev] = "collected"

\* ExecutorInfo.load_json(infofile).result
InfoResult(rev) ==
    IF info[rev] \in {"result", "collected"} THEN ResultOf(rev) ELSE <<NoResult>>

\* The empty results mapping (defaultdict(dict) with no key).
EmptyMap == [r \in {} |-> {}]

\* --------------------------------------------------------------------- Init

\* The queue is constructed over a broker that holds one undelivered message
\* of the other task module the celery app includes ("dvc_task.proc.tasks").

Init ==
    /\ stash = << >>
    /\ nput = 0
    /\ queued = << Message(ProcTask, 1, NoName) >>
    /\ processed = << >>
    /\ ready = [t \in TaskIds |-> FALSE]
    /\ info = [r \in Revs |-> "none"]
    /\ proc = [r \in Revs |-> "none"]
    /\ worker = "down"
    /\ current = 0
    /\ waiting = << >>
    /\ ret = NoRet
    /\ following = << >>
    /\ call = << >>
    /\ putting = << >>
    /\ wpc = "idle"
    /\ executor = << >>
    /\ trace = << >>
    /\ results = EmptyMap

\* ---------------------------------------------------------------------- put

\* The place of a revision in the order of the puts.
PutIndex(rev) == CHOOSE i \in 1..Len(AllRevs) : AllRevs[i] = rev

\* LocalCeleryQueue.put, first write: _stash_exp records the experiment in
\* the stash under a fresh revision.
PutStash ==
    /\ ret = NoRet
    /\ putting = << >>
    /\ nput < MaxPut
    /\ stash' = Append(stash, AllRevs[nput + 1])
    /\ nput' = nput + 1
    /\ putting' = << AllRevs[nput + 1] >>
    /\ UNCHANGED << queued, processed, ready, info, proc, worker, current,
                    waiting, ret, following, call, wsVars >>

\* Variant of the second write of put that returns the entry without sending
\* its message.
PutDelayNoMessage(ok) ==
    /\ ret = NoRet
    /\ putting # << >>
    /\ ret' = Ret("put", {putting[1]}, IF ok THEN "ok" ELSE "error", <<NoResult>>,
                  << >>, {}, << >>)
    /\ putting' = << >>
    /\ UNCHANGED << stash, nput, queued, processed, ready, info, proc, worker,
                    current, waiting, following, call, wsVars >>

\* LocalCeleryQueue.put, second write: delay() sends the run_exp message of
\* the stashed entry to the broker and put returns the entry (ok), or delay()
\* raises, the exception leaves put and the stash record stays without a
\* message.
PutDelay(ok) ==
    /\ ret = NoRet
    /\ putting # << >>
    /\ LET rev == putting[1]
           tid == PutIndex(rev) + 1
       IN /\ queued' = IF ok THEN Append(queued, Message(RunExp, tid, rev)) ELSE queued
          /\ ret' = Ret("put", {rev}, IF ok THEN "ok" ELSE "error", <<NoResult>>,
                        << >>, {}, << >>)
    /\ putting' = << >>
    /\ UNCHANGED << stash, nput, processed, ready, info, proc, worker,
                    current, waiting, following, call, wsVars >>

\* ------------------------------------------------------------------- worker

\* LocalCeleryQueue.spawn_worker: start the (single) queue worker.
SpawnWorker ==
    /\ ret = NoRet
    /\ worker = "down"
    /\ worker' = "up"
    /\ UNCHANGED << stash, nput, queued, processed, ready, info,
                    proc, current, waiting, ret >>
    /\ UNCHANGED << callVars, wsVars >>

\* The worker (concurrency 1, prefetch 1) takes the oldest undelivered
\* message: the broker moves it to the processed view and the worker has the
\* task in hand.  Nothing of the execution exists yet: no info file, no
\* process.  A task of the other type is short and is terminal at once.
Deliver ==
    /\ ret = NoRet
    /\ worker = "up"
    /\ current = 0
    /\ queued # << >>
    /\ LET msg == Head(queued)
       IN /\ queued' = Tail(queued)
          /\ processed' = Append(processed, msg)
          /\ IF IsRunExp(msg)
                THEN /\ current' = msg.id
                     /\ UNCHANGED ready
                ELSE /\ ready' = [ready EXCEPT ![msg.id] = TRUE]
                     /\ UNCHANGED current
    /\ UNCHANGED << stash, nput, info, proc, worker, waiting, ret >>
    /\ UNCHANGED << callVars, wsVars >>

\* The message the worker is executing.
CurrentMsg == CHOOSE m \in SeqToSet(processed) : m.id = current

\* The execution of the worker's run_exp task begins: the info file is
\* created and the executor process is spawned under the entry's stash
\* revision.
ExecBegin ==
    /\ ret = NoRet
    /\ current # 0
    /\ proc[CurrentMsg.rev] = "none"
    /\ info' = [info EXCEPT ![CurrentMsg.rev] = "started"]
    /\ proc' = [proc EXCEPT ![CurrentMsg.rev] = "running"]
    /\ UNCHANGED << stash, nput, queued, processed, ready, worker,
                    current, waiting, ret >>
    /\ UNCHANGED << callVars, wsVars >>

\* The executor process of a revision exits by itself: with its result
\* written to the info file (ok) or without one.
ProcExit(rev, ok) ==
    /\ ret = NoRet
    /\ proc[rev] = "running"
    /\ proc' = [proc EXCEPT ![rev] = "exited"]
    /\ info' = [info EXCEPT ![rev] = IF ok THEN "result" ELSE @]
    /\ UNCHANGED << stash, nput, queued, processed, ready, worker,
                    current, waiting, ret >>
    /\ UNCHANGED << callVars, wsVars >>

\* The worker's run_exp task reaches a terminal state: after the executor
\* process has ended, the result being collected (the info file then reports
\* collected) when there is one and collection succeeds; or before the
\* execution has begun (the task fails while it is set up), with no info
\* file ever created and no process.
TaskFinish(collect) ==
    /\ ret = NoRet
    /\ current # 0
    /\ LET msg == CurrentMsg
       IN /\ proc[msg.rev] \in {"none", "exited", "killed"}
          /\ info' = [info EXCEPT ![msg.rev] =
                        IF collect /\ @ = "result" THEN "collected" ELSE @]
    /\ ready' = [ready EXCEPT ![current] = TRUE]
    /\ current' = 0
    /\ UNCHANGED << stash, nput, queued, processed, proc, worker,
                    waiting, ret >>
    /\ UNCHANGED << callVars, wsVars >>

\* The transport's default for restore_at_shutdown, when celery() leaves it.
RestoreAtShutdownDefault == TRUE

\* Channel.QoS.restore_at_shutdown, as LocalCeleryQueue.celery sets it.
RestoreAtShutdown == FALSE

\* The worker process ends after a shutdown request.  A task it had not
\* finished stays unacknowledged (task_acks_late) and never becomes terminal;
\* its message is put back on the queue only if the channel restores
\* unacknowledged messages at shutdown.
WorkerStop ==
    /\ ret = NoRet
    /\ worker = "stopping"
    /\ worker' = "down"
    /\ current' = 0
    /\ IF RestoreAtShutdown /\ current # 0
          THEN /\ queued' = Append(queued, CurrentMsg)
               /\ processed' = SelectSeq(processed, LAMBDA m : m.id # current)
          ELSE UNCHANGED << queued, processed >>
    /\ UNCHANGED << stash, nput, ready, info, proc, waiting, ret >>
    /\ UNCHANGED << callVars, wsVars >>

\* ------------------------------------------------------------ name resolver

None == << >>

IsPrefix(p, s) == Len(p) <= Len(s) /\ SubSeq(s, 1, Len(p)) = p

\* An identifier matches an entry whose revision starts with it or whose
\* symbolic name equals it.
Matches(id, rev) ==
    \/ IsPrefix(id, rev)
    \/ EntryName(rev) # NoName /\ EntryName(rev) = id

\* BaseStashQueue.match_queue_entry_by_name: identifier -> first entry of the
\* source that matches, or None.
MatchQueueEntryByName(ids, entries) ==
    [id \in ids |->
        LET hits == { i \in 1..Len(entries) : Matches(id, entries[i]) }
        IN IF hits = {} THEN None
           ELSE entries[CHOOSE i \in hits : \A j \in hits : i <= j]]

\* --------------------------------------------------------------- get_result

\* What get_result(entry) comes to when the info file and the views do not
\* change between its reads, as for the done entry iter_done calls it with (a
\* terminal task stays terminal and its info file is not written again):
\* return the collected result, raise "Experiment has not been started.",
\* wait for an active task, or raise "Invalid experiment.".
GetResultDecision(rev) ==
    IF Collected(rev)
    THEN [outcome |-> "ok", result |-> InfoResult(rev), tid |-> 0]
    ELSE IF \E i \in 1..Len(IterQueued) : IterQueued[i] = rev
    THEN [outcome |-> "NotStarted", result |-> <<NoResult>>, tid |-> 0]
    ELSE LET hits == { i \in 1..Len(IterActiveTasks) : IterActiveTasks[i].rev = rev }
         IN IF hits # {}
            THEN [outcome |-> "waiting", result |-> <<NoResult>>,
                  tid |-> IterActiveTasks[CHOOSE i \in hits : \A j \in hits : i <= j].id]
            ELSE [outcome |-> "Invalid", result |-> <<NoResult>>, tid |-> 0]

Timeouts == {"None", "bounded"}

\* The record of a call in progress: the operation, its argument (an entry
\* for get_result, a set of stash revisions for _remove_revs), the timeout,
\* the place it has reached, the messages its scan has still to yield and
\* whether the scan or a rejection has raised.
Call(op, arg, timeout, pc, scan, raised) ==
    [op |-> op, arg |-> arg, timeout |-> timeout, pc |-> pc, scan |-> scan,
     raised |-> raised]

\* Variant of the first read of get_result without the collected fast path.
GetResultLoadNoFastPath(rev, timeout) ==
    /\ ret = NoRet
    /\ waiting = << >>
    /\ following = << >>
    /\ call = << >>
    /\ call' = << Call("get_result", rev, timeout, "queued", << >>, FALSE) >>
    /\ UNCHANGED << stash, nput, queued, processed, ready, info, proc,
                    worker, current, waiting, ret, following, putting, wsVars >>

\* get_result, first read: the info file.  A collected record is returned;
\* otherwise (no file, or not collected) the scans follow.
GetResultLoad(rev, timeout) ==
    /\ ret = NoRet
    /\ waiting = << >>
    /\ following = << >>
    /\ call = << >>
    /\ IF Collected(rev)
          THEN /\ ret' = Ret("get_result", {rev}, "ok", InfoResult(rev), << >>, {}, << >>)
               /\ UNCHANGED call
          ELSE /\ call' = << Call("get_result", rev, timeout, "queued", << >>, FALSE) >>
               /\ UNCHANGED ret
    /\ UNCHANGED << stash, nput, queued, processed, ready, info, proc,
                    worker, current, waiting, following, putting, wsVars >>

\* Variant of the second read of get_result that does not look for the entry
\* in the queued view.
GetResultScanQueuedSkips ==
    /\ ret = NoRet
    /\ call # << >>
    /\ call[1].op = "get_result"
    /\ call[1].pc = "queued"
    /\ call' = << [call[1] EXCEPT !.pc = "active"] >>
    /\ UNCHANGED << stash, nput, queued, processed, ready, info, proc,
                    worker, current, waiting, ret, following, putting, wsVars >>

\* get_result, second read: the scan of iter_queued().
GetResultScanQueued ==
    /\ ret = NoRet
    /\ call # << >>
    /\ call[1].op = "get_result"
    /\ call[1].pc = "queued"
    /\ IF \E i \in 1..Len(IterQueued) : IterQueued[i] = call[1].arg
          THEN /\ ret' = Ret("get_result", {call[1].arg}, "NotStarted", <<NoResult>>,
                             << >>, {}, << >>)
               /\ call' = << >>
          ELSE /\ call' = << [call[1] EXCEPT !.pc = "active"] >>
               /\ UNCHANGED ret
    /\ UNCHANGED << stash, nput, queued, processed, ready, info, proc,
                    worker, current, waiting, following, putting, wsVars >>

\* Variant of the third read of get_result that returns None where it raises
\* "Invalid experiment.".
GetResultScanActiveReturnsNone ==
    /\ ret = NoRet
    /\ call # << >>
    /\ call[1].op = "get_result"
    /\ call[1].pc = "active"
    /\ LET rev == call[1].arg
           hits == { i \in 1..Len(IterActiveTasks) : IterActiveTasks[i].rev = rev }
       IN IF hits # {}
          THEN /\ waiting' = << [rev |-> rev,
                                 tid |-> IterActiveTasks[CHOOSE i \in hits :
                                                           \A j \in hits : i <= j].id,
                                 timeout |-> call[1].timeout] >>
               /\ UNCHANGED ret
          ELSE /\ ret' = Ret("get_result", {rev}, "ok", <<NoResult>>, << >>, {}, << >>)
               /\ UNCHANGED waiting
    /\ call' = << >>
    /\ UNCHANGED << stash, nput, queued, processed, ready, info, proc,
                    worker, current, following, putting, wsVars >>

\* get_result, third read: the scan of _iter_active_tasks(); the caller waits
\* on the task of the entry, or "Invalid experiment." is raised.
GetResultScanActive ==
    /\ ret = NoRet
    /\ call # << >>
    /\ call[1].op = "get_result"
    /\ call[1].pc = "active"
    /\ LET rev == call[1].arg
           hits == { i \in 1..Len(IterActiveTasks) : IterActiveTasks[i].rev = rev }
       IN IF hits # {}
          THEN /\ waiting' = << [rev |-> rev,
                                 tid |-> IterActiveTasks[CHOOSE i \in hits :
                                                           \A j \in hits : i <= j].id,
                                 timeout |-> call[1].timeout] >>
               /\ UNCHANGED ret
          ELSE /\ ret' = Ret("get_result", {rev}, "Invalid", <<NoResult>>, << >>, {}, << >>)
               /\ UNCHANGED waiting
    /\ call' = << >>
    /\ UNCHANGED << stash, nput, queued, processed, ready, info, proc,
                    worker, current, following, putting, wsVars >>

\* result.get(timeout=timeout) returns because the task is terminal: the info
\* file is read again, outside the try of the first read, and its result
\* returned; with no info file the read raises FileNotFoundError.
GetResultWake ==
    /\ ret = NoRet
    /\ waiting # << >>
    /\ Ready(waiting[1].tid)
    /\ ret' = IF info[waiting[1].rev] = "none"
                 THEN Ret("get_result", {waiting[1].rev}, "FileNotFoundError",
                          <<NoResult>>, << >>, {}, << >>)
                 ELSE Ret("get_result", {waiting[1].rev}, "ok",
                          InfoResult(waiting[1].rev), << >>, {}, << >>)
    /\ waiting' = << >>
    /\ UNCHANGED << stash, nput, queued, processed, ready, info, proc,
                    worker, current >>
    /\ UNCHANGED << callVars, wsVars >>

\* result.get(timeout=timeout) raises celery's TimeoutError: get_result raises
\* "Timed out waiting for exp to finish.".
GetResultTimeout ==
    /\ ret = NoRet
    /\ waiting # << >>
    /\ waiting[1].timeout # "None"
    /\ ~Ready(waiting[1].tid)
    /\ ret' = Ret("get_result", {waiting[1].rev}, "Timeout", <<NoResult>>,
                  << >>, {}, << >>)
    /\ waiting' = << >>
    /\ UNCHANGED << stash, nput, queued, processed, ready, info, proc,
                    worker, current >>
    /\ UNCHANGED << callVars, wsVars >>

\* ---------------------------------------------------------------- iter_done

RECURSIVE DonePairs(_)
\* The (entry, result) pairs iter_done yields over the done tasks, up to the
\* first get_result that does not return.
DonePairs(tasks) ==
    IF tasks = << >>
    THEN [pairs |-> << >>, outcome |-> "ok"]
    ELSE LET d == GetResultDecision(Head(tasks).rev)
         IN IF d.outcome = "ok"
            THEN LET rest == DonePairs(Tail(tasks))
                 IN [rest EXCEPT !.pairs = << <<Head(tasks).rev, d.result>> >> \o @]
            ELSE [pairs |-> << >>, outcome |-> d.outcome]

\* LocalCeleryQueue.iter_done, consumed to its end.
IterDone ==
    /\ ret = NoRet
    /\ LET r == DonePairs(IterDoneTasks)
       IN ret' = Ret("iter_done", {}, r.outcome, <<NoResult>>, r.pairs, {}, << >>)
    /\ UNCHANGED << stash, nput, queued, processed, ready, info, proc,
                    worker, current, waiting >>
    /\ UNCHANGED << callVars, wsVars >>

\* ---------------------------------------------------------- kill / shutdown

RECURSIVE KillEach(_, _, _)
\* proc.kill(rev) for each revision of a sequence, in order.  Killing a
\* running process terminates it; where there is no running process (it has
\* ended, or none was spawned) the lookup fails with ProcessLookupError,
\* which ends the loop unless the caller catches it.
KillEach(order, p, catch) ==
    IF order = << >>
    THEN [proc |-> p, requested |-> << >>, raised |-> FALSE]
    ELSE LET rev == Head(order)
         IN IF p[rev] = "running" \/ catch
            THEN LET rest == KillEach(Tail(order),
                                      IF p[rev] = "running"
                                         THEN [p EXCEPT ![rev] = "killed"] ELSE p,
                                      catch)
                 IN [rest EXCEPT !.requested = <<rev>> \o @]
            ELSE [proc |-> p, requested |-> <<rev>>, raised |-> TRUE]

\* The orders in which a set of entries may be iterated.
Orders(S) ==
    { o \in [1..Cardinality(S) -> S] : \A i, j \in 1..Cardinality(S) : o[i] = o[j] => i = j }

\* Variant of kill that kills each entry as soon as its name resolves and
\* raises for the missing names afterwards.
KillEager(revs) ==
    /\ ret = NoRet
    /\ LET name_dict == MatchQueueEntryByName(revs, IterActive)
           missing_rev == { id \in revs : name_dict[id] = None }
           to_kill == { name_dict[id] : id \in revs } \ {None}
       IN \E order \in Orders(to_kill) :
             LET k == KillEach(order, proc, FALSE)
             IN /\ proc' = k.proc
                /\ ret' = IF missing_rev # {}
                             THEN Ret("kill", revs, "UnresolvedNames", <<NoResult>>,
                                      << >>, missing_rev, << >>)
                             ELSE Ret("kill", revs,
                                      IF k.raised THEN "ProcessLookupError" ELSE "ok",
                                      <<NoResult>>, << >>, {}, k.requested)
    /\ UNCHANGED << stash, nput, queued, processed, ready, info,
                    worker, current, waiting >>
    /\ UNCHANGED << callVars, wsVars >>

\* LocalCeleryQueue.kill(revs)
Kill(revs) ==
    /\ ret = NoRet
    /\ LET name_dict == MatchQueueEntryByName(revs, IterActive)
           missing_rev == { id \in revs : name_dict[id] = None }
           to_kill == { name_dict[id] : id \in revs } \ {None}
       IN IF missing_rev # {}
          THEN /\ ret' = Ret("kill", revs, "UnresolvedNames", <<NoResult>>, << >>,
                             missing_rev, << >>)
               /\ UNCHANGED proc
          ELSE \E order \in Orders(to_kill) :
                 LET k == KillEach(order, proc, FALSE)
                 IN /\ proc' = k.proc
                    /\ ret' = Ret("kill", revs,
                                  IF k.raised THEN "ProcessLookupError" ELSE "ok",
                                  <<NoResult>>, << >>, {}, k.requested)
    /\ UNCHANGED << stash, nput, queued, processed, ready, info,
                    worker, current, waiting >>
    /\ UNCHANGED << callVars, wsVars >>

\* shutdown(kill), with or without the except-ProcessLookupError clause
\* around proc.kill.
ShutdownWith(kill, catch) ==
    /\ ret = NoRet
    /\ worker' = IF worker = "up" THEN "stopping" ELSE worker
    /\ LET k == KillEach(IF kill THEN IterActive ELSE << >>, proc, catch)
       IN /\ proc' = k.proc
          /\ ret' = Ret(IF kill THEN "shutdown_kill" ELSE "shutdown", {},
                        IF k.raised THEN "ProcessLookupError" ELSE "ok",
                        <<NoResult>>, << >>, {}, k.requested)
    /\ UNCHANGED << stash, nput, queued, processed, ready, info,
                    current, waiting >>
    /\ UNCHANGED << callVars, wsVars >>

\* Variant of shutdown without the except-ProcessLookupError clause.
ShutdownNoCatch(kill) == ShutdownWith(kill, FALSE)

\* LocalCeleryQueue.shutdown(kill)
Shutdown(kill) == ShutdownWith(kill, TRUE)

\* ------------------------------------------------- iter_queued / iter_active

\* LocalCeleryQueue.iter_queued, consumed to its end by a caller.
CallIterQueued ==
    /\ ret = NoRet
    /\ ret' = Ret("iter_queued", {}, "ok", <<NoResult>>, << >>, {}, IterQueued)
    /\ UNCHANGED << stash, nput, queued, processed, ready, info, proc,
                    worker, current, waiting >>
    /\ UNCHANGED << callVars, wsVars >>

\* LocalCeleryQueue.iter_active, consumed to its end by a caller.
CallIterActive ==
    /\ ret = NoRet
    /\ ret' = Ret("iter_active", {}, "ok", <<NoResult>>, << >>, {}, IterActive)
    /\ UNCHANGED << stash, nput, queued, processed, ready, info, proc,
                    worker, current, waiting >>
    /\ UNCHANGED << callVars, wsVars >>

\* ------------------------------------------------------------ follow / logs

\* What a caller of follow or logs gets: the stream followed to its end, the
\* stream up to the caller's cancellation, the recorded stdout file.
Stream(rev) == <<"stream", rev>>

Cancelled(rev) == <<"cancelled", rev>>

Stdout(rev) == <<"stdout", rev>>

\* LocalCeleryQueue.follow(entry): proc.follow of a revision the process
\* manager does not know raises KeyError; otherwise the caller is blocked on
\* the stream of the process.
Follow(rev) ==
    /\ ret = NoRet
    /\ waiting = << >>
    /\ following = << >>
    /\ call = << >>
    /\ IF proc[rev] = "none"
          THEN /\ ret' = Ret("follow", {rev}, "KeyError", <<NoResult>>, << >>, {}, << >>)
               /\ UNCHANGED following
          ELSE /\ following' = << [rev |-> rev, via |-> "follow"] >>
               /\ UNCHANGED ret
    /\ UNCHANGED << stash, nput, queued, processed, ready, info, proc,
                    worker, current, waiting, call, putting, wsVars >>

\* The stream of proc.follow ends because the process has ended: follow, and
\* logs(follow=True) around it, return.
FollowEnd ==
    /\ ret = NoRet
    /\ following # << >>
    /\ proc[following[1].rev] # "running"
    /\ ret' = Ret(following[1].via, {following[1].rev}, "ok",
                  Stream(following[1].rev), << >>, {}, << >>)
    /\ following' = << >>
    /\ UNCHANGED << stash, nput, queued, processed, ready, info, proc,
                    worker, current, waiting, call, putting, wsVars >>

\* Variant of the cancellation of a follow that tears the followed process
\* down with the stream.
FollowCancelKills ==
    /\ ret = NoRet
    /\ following # << >>
    /\ ret' = Ret(following[1].via, {following[1].rev},
                  IF following[1].via = "logs" THEN "ok" ELSE "KeyboardInterrupt",
                  Cancelled(following[1].rev), << >>, {}, << >>)
    /\ following' = << >>
    /\ proc' = [proc EXCEPT ![following[1].rev] = IF @ = "running" THEN "killed" ELSE @]
    /\ UNCHANGED << stash, nput, queued, processed, ready, info,
                    worker, current, waiting, call, putting, wsVars >>

\* The caller cancels the follow (KeyboardInterrupt): follow lets it through,
\* logs(follow=True) catches it and returns.
FollowCancel ==
    /\ ret = NoRet
    /\ following # << >>
    /\ ret' = Ret(following[1].via, {following[1].rev},
                  IF following[1].via = "logs" THEN "ok" ELSE "KeyboardInterrupt",
                  Cancelled(following[1].rev), << >>, {}, << >>)
    /\ following' = << >>
    /\ UNCHANGED << stash, nput, queued, processed, ready, info, proc,
                    worker, current, waiting, call, putting, wsVars >>

RECURSIVE ScanDone(_, _)
\* The resolver's scan of iter_done for one identifier: iter_done yields an
\* entry only after get_result(entry) has returned, so a get_result that
\* raises ends the scan with its error.
ScanDone(id, tasks) ==
    IF tasks = << >>
    THEN [outcome |-> "ok", entry |-> None]
    ELSE LET d == GetResultDecision(Head(tasks).rev)
         IN IF d.outcome # "ok"
            THEN [outcome |-> d.outcome, entry |-> None]
            ELSE IF Matches(id, Head(tasks).rev)
            THEN [outcome |-> "ok", entry |-> Head(tasks).rev]
            ELSE ScanDone(id, Tail(tasks))

\* match_queue_entry_by_name({rev}, iter_active(), iter_done()).get(rev)
LogsResolve(id) ==
    LET a == MatchQueueEntryByName({id}, IterActive)[id]
    IN IF a # None THEN [outcome |-> "ok", entry |-> a]
       ELSE ScanDone(id, IterDoneTasks)

\* LocalCeleryQueue.logs(rev, follow), up to the point where it returns,
\* raises or starts to follow the process of the resolved entry.  With
\* follow, self.follow(entry) raises KeyError for a revision the process
\* manager does not know and logs, which catches KeyboardInterrupt only, lets
\* it through.
Logs(id, follow) ==
    /\ ret = NoRet
    /\ waiting = << >>
    /\ following = << >>
    /\ call = << >>
    /\ LET r == LogsResolve(id)
       IN IF r.outcome # "ok"
          THEN /\ ret' = Ret("logs", {id}, r.outcome, <<NoResult>>, << >>, {}, << >>)
               /\ UNCHANGED following
          ELSE IF r.entry = None
          THEN /\ ret' = Ret("logs", {id},
                             IF id \in DOMAIN MatchQueueEntryByName({id}, IterQueued)
                                THEN "QueuedNotStarted" ELSE "UnresolvedNames",
                             <<NoResult>>, << >>,
                             IF id \in DOMAIN MatchQueueEntryByName({id}, IterQueued)
                                THEN {} ELSE {id},
                             << >>)
               /\ UNCHANGED following
          ELSE IF follow
          THEN IF proc[r.entry] = "none"
               THEN /\ ret' = Ret("logs", {id}, "KeyError", <<NoResult>>, << >>, {}, << >>)
                    /\ UNCHANGED following
               ELSE /\ following' = << [rev |-> r.entry, via |-> "logs"] >>
                    /\ UNCHANGED ret
          ELSE /\ ret' = IF proc[r.entry] = "none"
                         THEN Ret("logs", {id}, "NoLogs", <<NoResult>>, << >>, {}, << >>)
                         ELSE Ret("logs", {id}, "ok", Stdout(r.entry), << >>, {}, << >>)
               /\ UNCHANGED following
    /\ UNCHANGED << stash, nput, queued, processed, ready, info, proc,
                    worker, current, waiting, call, putting, wsVars >>

\* ------------------------------------------------------------------- return

\* The caller takes what the last call returned or raised; the next call or
\* event follows.
Return ==
    /\ ret # NoRet
    /\ ret' = NoRet
    /\ UNCHANGED << stash, nput, queued, processed, ready, info, proc, worker,
                    current, waiting >>
    /\ UNCHANGED << callVars, wsVars >>

\* --------------------------------------------------------------------- Next

KillArgs == { S \in SUBSET Ids : S # {} /\ Cardinality(S) <= MaxKillIds }

Next ==
    \/ PutStash
    \/ \E ok \in BOOLEAN : PutDelay(ok)
    \/ SpawnWorker
    \/ Deliver
    \/ ExecBegin
    \/ \E rev \in Revs, ok \in BOOLEAN : ProcExit(rev, ok)
    \/ \E collect \in BOOLEAN : TaskFinish(collect)
    \/ WorkerStop
    \/ \E rev \in Revs, timeout \in Timeouts : GetResultLoad(rev, timeout)
    \/ GetResultScanQueued
    \/ GetResultScanActive
    \/ GetResultWake
    \/ GetResultTimeout
    \/ IterDone
    \/ \E revs \in KillArgs : Kill(revs)
    \/ \E kill \in BOOLEAN : Shutdown(kill)
    \/ CallIterQueued
    \/ CallIterActive
    \/ \E rev \in Revs : Follow(rev)
    \/ FollowEnd
    \/ FollowCancel
    \/ \E id \in Ids, follow \in BOOLEAN : Logs(id, follow)
    \/ Return

Spec == Init /\ [][Next]_vars

\* ----------------------------------------------------------- _remove_revs

\* _remove_revs(stash_revs) begins: the scan of _iter_queued() starts over the
\* messages the broker holds undelivered.
RemoveRevsStart(revs) ==
    /\ ret = NoRet
    /\ waiting = << >>
    /\ call = << >>
    /\ revs # {}
    /\ revs \subseteq SeqToSet(stash)
    /\ call' = << Call("_remove_revs", revs, "None", "scan", IterQueuedMsgs, FALSE) >>
    /\ UNCHANGED << stash, nput, queued, processed, ready, info, proc,
                    worker, current, waiting, ret, following, putting, wsVars >>

\* One turn of the loop of _remove_revs: the scan yields its next message,
\* which is rejected (withdrawn from the broker's undelivered messages) when
\* its entry's stash revision is among the given ones (ok).  Or the scan or
\* the rejection fails (ok = FALSE) and the exception leaves the loop; the
\* scan reads the broker also when no message of this task type is left to
\* yield, so it can fail then too.
RemoveRevsStep(ok) ==
    /\ ret = NoRet
    /\ call # << >>
    /\ call[1].op = "_remove_revs"
    /\ call[1].pc = "scan"
    /\ IF ok
          THEN /\ call[1].scan # << >>
               /\ queued' = IF Head(call[1].scan).rev \in call[1].arg
                               THEN SelectSeq(queued, LAMBDA m : m # Head(call[1].scan))
                               ELSE queued
               /\ call' = << [call[1] EXCEPT !.scan = Tail(@)] >>
          ELSE /\ call' = << [call[1] EXCEPT !.pc = "finally", !.raised = TRUE] >>
               /\ UNCHANGED queued
    /\ UNCHANGED << stash, nput, processed, ready, info, proc,
                    worker, current, waiting, ret, following, putting, wsVars >>

\* The finally clause of _remove_revs: super()._remove_revs(stash_revs)
\* removes the stash records, after the loop has ended or raised; an
\* exception of the loop then goes on to the caller.
RemoveRevsFinally ==
    /\ ret = NoRet
    /\ call # << >>
    /\ call[1].op = "_remove_revs"
    /\ call[1].pc = "finally" \/ call[1].scan = << >>
    /\ stash' = SelectSeq(stash, LAMBDA r : r \notin call[1].arg)
    /\ ret' = Ret("_remove_revs", call[1].arg, IF call[1].raised THEN "error" ELSE "ok",
                  <<NoResult>>, << >>, {}, << >>)
    /\ call' = << >>
    /\ UNCHANGED << nput, queued, processed, ready, info, proc,
                    worker, current, waiting, following, putting, wsVars >>

\* The arguments of _remove_revs.
RemoveArgs == SUBSET Revs \ {{}}

\* The broker-backed queue with _remove_revs taken turn by turn of its loop,
\* interleaved with put, with get_result and with a worker that delivers and
\* completes tasks.
NextConc ==
    \/ PutStash
    \/ \E ok \in BOOLEAN : PutDelay(ok)
    \/ SpawnWorker
    \/ Deliver
    \/ ExecBegin
    \/ \E rev \in Revs, ok \in BOOLEAN : ProcExit(rev, ok)
    \/ \E collect \in BOOLEAN : TaskFinish(collect)
    \/ \E rev \in Revs, timeout \in Timeouts : GetResultLoad(rev, timeout)
    \/ GetResultScanQueued
    \/ GetResultScanActive
    \/ GetResultWake
    \/ GetResultTimeout
    \/ \E revs \in RemoveArgs : RemoveRevsStart(revs)
    \/ \E ok \in BOOLEAN : RemoveRevsStep(ok)
    \/ RemoveRevsFinally
    \/ Return

SpecConc == Init /\ [][NextConc]_vars

\* ------------------------------------------------------- WorkspaceQueue

\* WorkspaceQueue.put: the experiment is stashed; no broker is involved.
WsPut ==
    /\ ret = NoRet
    /\ wpc = "idle"
    /\ nput < MaxPut
    /\ stash' = Append(stash, AllRevs[nput + 1])
    /\ nput' = nput + 1
    /\ ret' = Ret("put", {AllRevs[nput + 1]}, "ok", <<NoResult>>, << >>, {}, << >>)
    /\ UNCHANGED << queued, processed, ready, info, proc, worker, current,
                    waiting, callVars, wsVars >>

\* An event of a reproduce call: the start with the stash as it is then, a
\* get that returned an entry with its executor, a get that raised
\* ExpQueueEmptyError, the execution of an entry with how it ended, the
\* cleanup of the executor of an entry.
Event(ev, rev, outcome) == [ev |-> ev, rev |-> rev, outcome |-> outcome]

\* How the execution of an entry can end: with a hash and reference
\* information that collect_executor records under the executor's branch;
\* the same with no executor branch to record; with a hash and no reference
\* information; without a hash; with CheckpointKilledError; with a
\* DvcException; with another exception.
Outcomes == {"collected", "no_exec_branch", "no_ref_info", "no_hash",
             "killed", "dvc_error", "error"}

\* scm.get_ref(EXEC_BRANCH) and exec_result.exp_hash after the execution of
\* an entry.
ExpRev(rev) == <<"exp", rev>>

ExpHash(rev) == <<"hash", rev>>

\* WorkspaceQueue.collect_executor
CollectExecutor(rev, outcome) ==
    IF outcome = "collected" THEN { <<ExpRev(rev), ExpHash(rev)>> } ELSE {}

\* dict.update
Update(f, g) ==
    [r \in (DOMAIN f) \cup (DOMAIN g) |-> IF r \in DOMAIN g THEN g[r] ELSE f[r]]

\* What _reproduce_entry returns when it returns: results[rev] is created
\* and updated only when the result has reference information.
EntryResults(rev, outcome) ==
    IF outcome \in {"collected", "no_exec_branch"}
    THEN [r \in {rev} |-> CollectExecutor(rev, outcome)]
    ELSE EmptyMap

\* The exits of _reproduce_entry that raise DvcException.
Raises(outcome) == outcome \in {"no_hash", "dvc_error", "error"}

\* self.stash.stash_revs: the stash records in insertion order.
StashRevs == stash

\* Variant of the choice of get: the newest stash record.
Newest(revs) == revs[Len(revs)]

\* first(revs.items())
First(revs) == Head(revs)

\* setup_executor removes the stash record of the entry it builds the
\* executor for (get pops the record).
SetupExecutor(rev) == SelectSeq(stash, LAMBDA r : r # rev)

\* WorkspaceQueue.reproduce begins: an empty results mapping.
ReproduceStart ==
    /\ ret = NoRet
    /\ wpc = "idle"
    /\ wpc' = "get"
    /\ trace' = << Event("start", StashRevs, "none") >>
    /\ results' = EmptyMap
    /\ UNCHANGED << stash, nput, queued, processed, ready, info, proc, worker,
                    current, waiting, ret, callVars, executor >>

\* Variant of the loop of reproduce in which the ExpQueueEmptyError of get
\* is not caught.
WsGetEmptyEscapes ==
    /\ ret = NoRet
    /\ wpc = "get"
    /\ IF StashRevs = << >>
          THEN /\ trace' = Append(trace, Event("get", NoName, "ExpQueueEmptyError"))
               /\ ret' = Ret("reproduce", {}, "ExpQueueEmptyError", <<NoResult>>, << >>,
                             {}, << >>)
               /\ wpc' = "idle"
               /\ UNCHANGED << stash, executor >>
          ELSE /\ trace' = Append(trace, Event("get", First(StashRevs), "ok"))
               /\ stash' = SetupExecutor(First(StashRevs))
               /\ executor' = Append(executor, First(StashRevs))
               /\ wpc' = "entry"
               /\ UNCHANGED ret
    /\ UNCHANGED << nput, queued, processed, ready, info, proc, worker,
                    current, waiting, callVars, results >>

\* One call of get in the loop of reproduce.  On an empty stash get raises
\* ExpQueueEmptyError, which reproduce catches: it returns results.
\* Otherwise get returns the first stash record as an entry, with the
\* executor set up for it.
WsGet ==
    /\ ret = NoRet
    /\ wpc = "get"
    /\ IF StashRevs = << >>
          THEN /\ trace' = Append(trace, Event("get", NoName, "ExpQueueEmptyError"))
               /\ ret' = Ret("reproduce", {}, "ok", results, << >>, {}, << >>)
               /\ wpc' = "idle"
               /\ UNCHANGED << stash, executor >>
          ELSE /\ trace' = Append(trace, Event("get", First(StashRevs), "ok"))
               /\ stash' = SetupExecutor(First(StashRevs))
               /\ executor' = Append(executor, First(StashRevs))
               /\ wpc' = "entry"
               /\ UNCHANGED ret
    /\ UNCHANGED << nput, queued, processed, ready, info, proc, worker,
                    current, waiting, callVars, results >>

\* The entry get has just returned.
CurrentEntry == trace[Len(trace)].rev

\* Variant of _reproduce_entry with executor.cleanup() at the end of the try
\* block instead of in a finally clause.
ReproduceEntryNoFinally(outcome) ==
    /\ ret = NoRet
    /\ wpc = "entry"
    /\ LET rev == CurrentEntry
           clean == outcome \in {"collected", "no_exec_branch", "no_ref_info"}
       IN /\ trace' = trace \o << Event("reproduce", rev, outcome) >>
                            \o (IF clean THEN << Event("cleanup", rev, "ok") >> ELSE << >>)
          /\ executor' = IF clean THEN SelectSeq(executor, LAMBDA r : r # rev)
                         ELSE executor
          /\ IF Raises(outcome)
                THEN /\ ret' = Ret("reproduce", {rev}, "DvcException", <<NoResult>>,
                                   << >>, {}, << >>)
                     /\ wpc' = "idle"
                     /\ UNCHANGED results
                ELSE /\ results' = Update(results,
                                          IF outcome = "killed" THEN EmptyMap
                                          ELSE EntryResults(rev, outcome))
                     /\ wpc' = "get"
                     /\ UNCHANGED ret
    /\ UNCHANGED << stash, nput, queued, processed, ready, info, proc, worker,
                    current, waiting, callVars >>

\* _reproduce_entry(entry, executor) and what reproduce does with it: the
\* execution ends in one of the ways above, the executor is cleaned up
\* (finally), and then either DvcException leaves reproduce, or the returned
\* mapping ({} after CheckpointKilledError) is merged into results and the
\* loop goes on with the next get.
ReproduceEntry(outcome) ==
    /\ ret = NoRet
    /\ wpc = "entry"
    /\ LET rev == CurrentEntry
       IN /\ trace' = trace \o << Event("reproduce", rev, outcome),
                                  Event("cleanup", rev, "ok") >>
          /\ executor' = SelectSeq(executor, LAMBDA r : r # rev)
          /\ IF Raises(outcome)
                THEN /\ ret' = Ret("reproduce", {rev}, "DvcException", <<NoResult>>,
                                   << >>, {}, << >>)
                     /\ wpc' = "idle"
                     /\ UNCHANGED results
                ELSE /\ results' = Update(results,
                                          IF outcome = "killed" THEN EmptyMap
                                          ELSE EntryResults(rev, outcome))
                     /\ wpc' = "get"
                     /\ UNCHANGED ret
    /\ UNCHANGED << stash, nput, queued, processed, ready, info, proc, worker,
                    current, waiting, callVars >>

\* The synchronous queue: one caller that puts and reproduces.
NextWs ==
    \/ WsPut
    \/ ReproduceStart
    \/ WsGet
    \/ \E outcome \in Outcomes : ReproduceEntry(outcome)
    \/ Return

SpecWs == Init /\ [][NextWs]_vars

\* ------------------------------------------------------ observed entry states

\* The entry is yielded by iter_queued / iter_active / iter_done.
InQueued(rev) == \E i \in 1..Len(IterQueued) : IterQueued[i] = rev

InActive(rev) == \E i \in 1..Len(IterActive) : IterActive[i] = rev

InDone(rev) == \E i \in 1..Len(IterDoneTasks) : IterDoneTasks[i].rev = rev

\* The revisions stashed by put so far.
PutRevs == { AllRevs[i] : i \in 1..nput }

\* Everything but the record of the last call and the callers in the middle
\* of an operation.
queueState == << stash, nput, queued, processed, ready, info, proc, worker, current >>

\* The task of an active entry.
ActiveTaskOf(rev) ==
    (CHOOSE m \in SeqToSet(IterActiveTasks) : m.rev = rev).id

\* The entry of the get_result call that is between two of its reads.
CallRev == call[1].arg

\* ------------------------------------------------------------------- claims

\* C1: in every reachable state, every entry is yielded by at most one of the
\* three views iter_queued, iter_active and iter_done taken on that state.
C1_AtMostOneView ==
    \A rev \in Revs :
        /\ ~(InQueued(rev) /\ InActive(rev))
        /\ ~(InQueued(rev) /\ InDone(rev))
        /\ ~(InActive(rev) /\ InDone(rev))

\* C1 witness: one entry is done while another is active and the broker also
\* holds the delivered message of the other task type.
C1_Witness ==
    /\ InDone(AllRevs[1])
    /\ InActive(AllRevs[2])
    /\ Len(processed) = 3

\* C2: the step in which put returns leaves the returned entry exactly once in
\* iter_queued and in neither iter_active nor iter_done and changes nothing
\* of the worker and of the delivered messages; and put is enabled whatever
\* the worker and the broker are doing (neither of its writes waits for a
\* worker).
C2_PutThenQueued ==
    /\ [][\A rev \in Revs :
            (PutDelay(TRUE) /\ putting = << rev >>)
            => /\ ret'.op = "put" /\ ret'.outcome = "ok" /\ ret'.args = {rev}
               /\ Count(IterQueued', rev) = 1
               /\ ~InActive(rev)'
               /\ ~InDone(rev)'
               /\ UNCHANGED << worker, current, processed, ready >>]_vars
    /\ []((nput < MaxPut /\ ret = NoRet /\ putting = << >>) => ENABLED PutStash)
    /\ []((putting # << >> /\ ret = NoRet) => ENABLED PutDelay(TRUE))

\* C2 witness: put has returned the second entry while no worker runs and the
\* first entry is still queued in front of it.
C2_Witness ==
    /\ ret.op = "put"
    /\ ret.args = {AllRevs[2]}
    /\ worker = "down"
    /\ IterQueued = << AllRevs[1], AllRevs[2] >>
    /\ IterActive = << >>

\* C3 (the views are functions of the broker's messages and the task states,
\* so only a step that changes one of these can move an entry): an entry
\* comes into the views only as queued, in the step in which its
\* put returns it, and from there it only moves forwards: queued -> active
\* (on delivery) -> done (on the task becoming terminal); no step takes it
\* out of the views, an active entry back to queued or a done entry back to
\* active or queued.
C3_ForwardOnly ==
    /\ [][<< queued, processed, ready >>' # << queued, processed, ready >>
            => \A rev \in Revs :
                  (/\ ~(InQueued(rev) \/ InActive(rev) \/ InDone(rev))
                   /\ (InQueued(rev)' \/ InActive(rev)' \/ InDone(rev)'))
                  => /\ InQueued(rev)'
                     /\ ret'.op = "put" /\ ret'.outcome = "ok" /\ ret'.args = {rev}]_vars
    /\ [][<< queued, processed, ready >>' # << queued, processed, ready >>
            => \A rev \in Revs :
                  /\ InQueued(rev) => (InQueued(rev)' \/ (InActive(rev)' /\ ~InQueued(rev)'))
                  /\ InActive(rev) => ((InActive(rev)' \/ InDone(rev)') /\ ~InQueued(rev)')
                  /\ InDone(rev) => (InDone(rev)' /\ ~InActive(rev)' /\ ~InQueued(rev)')]_vars

\* C3 witness: the worker was shut down while the first entry was active and
\* its process was killed; the entry is still active, not queued, and the
\* second entry is done.
C3_Witness ==
    /\ InActive(AllRevs[1])
    /\ proc[AllRevs[1]] = "killed"
    /\ current = 0
    /\ InDone(AllRevs[2])

\* C4: get_result for an entry without a collected info record goes on from
\* its read of the info file to its scan of iter_queued, and when that scan
\* finds the entry still queued it raises "Experiment has not been
\* started."; the call does not wait and changes nothing of the broker, the
\* stash, the info files or the processes.
C4_NotStarted ==
    /\ [][\A rev \in Revs, timeout \in Timeouts :
            (GetResultLoad(rev, timeout) /\ InQueued(rev) /\ ~Collected(rev))
            => /\ call' # << >> /\ CallRev' = rev /\ call'[1].pc = "queued"
               /\ ret' = NoRet
               /\ waiting' = << >>
               /\ UNCHANGED queueState]_vars
    /\ [][(GetResultScanQueued /\ InQueued(CallRev))
            => /\ ret'.op = "get_result" /\ ret'.args = {CallRev}
               /\ ret'.outcome = "NotStarted"
               /\ call' = << >>
               /\ waiting' = << >>
               /\ UNCHANGED queueState]_vars

\* C4 witness: get_result has raised "not started" for the second entry, which
\* is queued behind an active first entry.
C4_Witness ==
    /\ ret.op = "get_result"
    /\ ret.outcome = "NotStarted"
    /\ ret.args = {AllRevs[2]}
    /\ InQueued(AllRevs[2])
    /\ InActive(AllRevs[1])

\* C5 as claimed: whenever get_result returns or raises for an entry whose
\* task is terminal (a DONE entry), it returns without error.
C5_DoneAlwaysReturns ==
    [][(ret' # ret /\ ret'.op = "get_result" /\ \A rev \in ret'.args : InDone(rev))
          => ret'.outcome = "ok"]_vars

\* C5 amended: for a DONE entry whose info record reports collected,
\* get_result returns the persisted Result of the entry from its first read,
\* without error and without waiting, and leaves the queue state unchanged;
\* the entry stays done and collected, so every repeated call returns that
\* same Result.  For a DONE entry whose info record is not collected it goes
\* through both scans and raises "Invalid experiment." instead.
C5_DoneCollectedReturns ==
    /\ [][\A rev \in Revs, timeout \in Timeouts :
            (GetResultLoad(rev, timeout) /\ InDone(rev))
            => /\ waiting' = << >>
               /\ UNCHANGED queueState
               /\ IF Collected(rev)
                     THEN /\ ret'.op = "get_result" /\ ret'.args = {rev}
                          /\ ret'.outcome = "ok" /\ ret'.result = ResultOf(rev)
                          /\ call' = << >>
                     ELSE /\ ret' = NoRet
                          /\ call' # << >> /\ CallRev' = rev]_vars
    /\ [][(GetResultScanQueued /\ InDone(CallRev))
            => /\ ret' = NoRet /\ waiting' = << >>
               /\ call' # << >> /\ CallRev' = CallRev /\ call'[1].pc = "active"]_vars
    /\ [][(GetResultScanActive /\ InDone(CallRev))
            => /\ ret'.op = "get_result" /\ ret'.args = {CallRev}
               /\ ret'.outcome = "Invalid"
               /\ waiting' = << >>
               /\ UNCHANGED queueState]_vars
    /\ [][\A rev \in Revs :
            (InDone(rev) /\ Collected(rev)) => (InDone(rev)' /\ Collected(rev)')]_vars

\* C5 witness: get_result has returned the persisted Result of a done,
\* collected entry.
C5_Witness ==
    /\ ret.op = "get_result"
    /\ ret.outcome = "ok"
    /\ ret.args = {AllRevs[1]}
    /\ ret.result = ResultOf(AllRevs[1])
    /\ InDone(AllRevs[1])
    /\ Collected(AllRevs[1])

\* C6 as claimed: get_result for an entry without a collected info record
\* that its scan of the active tasks finds active waits on the entry's task;
\* the wait ends only by the task being terminal, by returning the result of
\* the info record as it is then, or by a bounded timeout elapsing before
\* that, with the timeout error; a wait without timeout never ends with the
\* timeout error.
C6_WaitsForActive ==
    /\ [][(GetResultScanActive /\ InActive(CallRev))
            => /\ waiting' = << [rev |-> CallRev, tid |-> ActiveTaskOf(CallRev),
                                 timeout |-> call[1].timeout] >>
               /\ ret' = NoRet
               /\ call' = << >>
               /\ UNCHANGED queueState]_vars
    /\ [][(waiting # << >> /\ waiting' # waiting)
            => /\ waiting' = << >>
               /\ ret'.op = "get_result" /\ ret'.args = {waiting[1].rev}
               /\ UNCHANGED queueState
               /\ \/ /\ Ready(waiting[1].tid)
                     /\ ret'.outcome = "ok"
                     /\ ret'.result = InfoResult(waiting[1].rev)
                  \/ /\ ~Ready(waiting[1].tid)
                     /\ waiting[1].timeout # "None"
                     /\ ret'.outcome = "Timeout"]_vars

\* C7: get_result for an entry with no collected info record that its scans
\* find in neither iter_queued nor the active tasks raises "Invalid
\* experiment.": it does not report "not started", does not wait and returns
\* no value.
C7_InvalidExperiment ==
    /\ [][\A rev \in Revs, timeout \in Timeouts :
            (GetResultLoad(rev, timeout) /\ ~Collected(rev))
            => /\ ret' = NoRet /\ waiting' = << >>
               /\ call' # << >> /\ CallRev' = rev /\ call'[1].pc = "queued"]_vars
    /\ [][(GetResultScanQueued /\ ~InQueued(CallRev))
            => /\ ret' = NoRet /\ waiting' = << >>
               /\ call' # << >> /\ CallRev' = CallRev /\ call'[1].pc = "active"]_vars
    /\ [][(GetResultScanActive /\ ~InActive(CallRev))
            => /\ ret'.op = "get_result" /\ ret'.args = {CallRev}
               /\ ret'.outcome = "Invalid"
               /\ call' = << >>
               /\ waiting' = << >>
               /\ UNCHANGED queueState]_vars

\* C7 witness: get_result has raised "Invalid experiment." for an entry whose
\* task is terminal and whose info record is not collected.
C7_Witness ==
    /\ ret.op = "get_result"
    /\ ret.outcome = "Invalid"
    /\ ret.args = {AllRevs[1]}
    /\ InDone(AllRevs[1])
    /\ ~Collected(AllRevs[1])

\* C8 as claimed: iter_done does not fail and yields one pair for every entry
\* whose message is delivered and whose task is terminal, whether or not the
\* info record reports collection.
C8_IterDoneYieldsAll ==
    [][IterDone
          => /\ ret'.outcome = "ok"
             /\ Len(ret'.pairs) = Len(IterDoneTasks)
             /\ \A i \in 1..Len(IterDoneTasks) :
                    ret'.pairs[i][1] = IterDoneTasks[i].rev]_vars

\* An identifier that matches no active entry.
Unresolved(id) == \A i \in 1..Len(IterActive) : ~Matches(id, IterActive[i])

\* C9: when an identifier given to kill matches no active entry, kill raises
\* one UnresolvedNames error that lists exactly the identifiers matching no
\* active entry, and terminates no process.
C9_KillAllOrNothing ==
    [][\A revs \in KillArgs :
          (/\ ret'.op = "kill" /\ ret'.args = revs
           /\ Kill(revs)
           /\ \E id \in revs : Unresolved(id))
          => /\ ret'.op = "kill" /\ ret'.args = revs
             /\ ret'.outcome = "UnresolvedNames"
             /\ ret'.missing = { id \in revs : Unresolved(id) }
             /\ ret'.requested = << >>
             /\ proc' = proc
             /\ UNCHANGED queueState]_vars

\* C9 witness: kill was given the revision of an active entry with a running
\* process and an unknown name; it raised UnresolvedNames for the unknown name
\* alone and the process is still running.
C9_Witness ==
    /\ ret.op = "kill"
    /\ ret.outcome = "UnresolvedNames"
    /\ ret.args = { AllRevs[1], <<"z">> }
    /\ ret.missing = { <<"z">> }
    /\ InActive(AllRevs[1])
    /\ proc[AllRevs[1]] = "running"

\* C10: shutdown asks the worker to stop; without kill it terminates no
\* process; with kill it requests termination of the process of every active
\* entry, never fails, and a process that has already ended does not keep the
\* processes of the other active entries from being terminated.
C10_Shutdown ==
    [][\A kill \in BOOLEAN :
          Shutdown(kill)
          => /\ worker' = IF worker = "up" THEN "stopping" ELSE worker
             /\ ret'.outcome = "ok"
             /\ UNCHANGED << stash, nput, queued, processed, ready, info, current,
                             waiting >>
             /\ IF kill
                   THEN /\ ret'.requested = IterActive
                        /\ \A rev \in Revs :
                              proc'[rev] = IF InActive(rev) /\ proc[rev] = "running"
                                              THEN "killed" ELSE proc[rev]
                   ELSE /\ ret'.requested = << >>
                        /\ proc' = proc]_vars

\* C10 witness: shutdown(kill=True) ran over two active entries; the process
\* of the first had already exited, and the process of the second was killed.
C10_Witness ==
    /\ ret.op = "shutdown_kill"
    /\ ret.outcome = "ok"
    /\ ret.requested = << AllRevs[1], AllRevs[2] >>
    /\ proc[AllRevs[1]] = "exited"
    /\ proc[AllRevs[2]] = "killed"
    /\ IterActive = << AllRevs[1], AllRevs[2] >>

\* C11: put, iter_queued, iter_active, iter_done, get_result (its wait ending
\* by completion or by timeout), follow and logs (ending with the stream or by
\* the caller's cancellation, which logs(follow=True) turns into a normal
\* return) and shutdown(kill=False) leave every process as it was (no step that
\* changes a process is a step of one of them); a process
\* is killed only in a step of kill or shutdown(kill=True) that requested it;
\* and kill leaves the broker's messages, the task states, the stash and the
\* info files in place.
C11_OnlyKillTerminates ==
    /\ [][proc' # proc
          => ~(\/ PutStash
               \/ \E ok \in BOOLEAN : PutDelay(ok)
               \/ CallIterQueued
               \/ CallIterActive
               \/ IterDone
               \/ \E rev \in Revs, timeout \in Timeouts : GetResultLoad(rev, timeout)
               \/ GetResultScanQueued
               \/ GetResultScanActive
               \/ GetResultWake
               \/ GetResultTimeout
               \/ \E rev \in Revs : Follow(rev)
               \/ FollowEnd
               \/ FollowCancel
               \/ \E id \in Ids, follow \in BOOLEAN : Logs(id, follow)
               \/ Shutdown(FALSE))]_vars
    /\ [][\A rev \in Revs :
            (proc[rev] # "killed" /\ proc'[rev] = "killed")
            => /\ proc[rev] = "running"
               /\ ret'.op \in {"kill", "shutdown_kill"}
               /\ \E i \in 1..Len(ret'.requested) : ret'.requested[i] = rev]_vars
    /\ [][\A revs \in KillArgs :
            (ret'.op = "kill" /\ ret'.args = revs /\ Kill(revs))
            => UNCHANGED << stash, nput, queued, processed, ready, info,
                            worker, current >>]_vars

\* C11 witness: the caller of logs(follow=True) has cancelled the follow of an
\* active entry; logs returned normally and the followed process still runs.
C11_Witness ==
    /\ ret.op = "logs"
    /\ ret.outcome = "ok"
    /\ ret.result = Cancelled(AllRevs[1])
    /\ InActive(AllRevs[1])
    /\ proc[AllRevs[1]] = "running"

\* An identifier that matches an entry of a view.
MatchesSome(id, entries) == \E i \in 1..Len(entries) : Matches(id, entries[i])

\* C12 as claimed: logs for an identifier that matches no active and no done
\* entry and matches a queued entry raises the "in queue but has not been
\* started" error.
C12_LogsQueuedNotStarted ==
    [][\A id \in Ids, follow \in BOOLEAN :
          (/\ Logs(id, follow)
           /\ ~MatchesSome(id, IterActive)
           /\ ~MatchesSome(id, Entries(IterDoneTasks))
           /\ MatchesSome(id, IterQueued))
          => ret'.op = "logs" /\ ret'.outcome = "QueuedNotStarted"]_vars

\* C13 as claimed: logs for an identifier that matches no entry of the
\* active, done and queued views raises UnresolvedNames for that identifier.
C13_LogsUnresolved ==
    [][\A id \in Ids, follow \in BOOLEAN :
          (/\ Logs(id, follow)
           /\ ~MatchesSome(id, IterActive)
           /\ ~MatchesSome(id, Entries(IterDoneTasks))
           /\ ~MatchesSome(id, IterQueued))
          => /\ ret'.op = "logs"
             /\ ret'.outcome = "UnresolvedNames"
             /\ ret'.missing = {id}]_vars

\* The active entries a set of identifiers resolves to.
ResolvedActive(revs) == { MatchQueueEntryByName(revs, IterActive)[id] : id \in revs } \ {None}

\* C20 as claimed: when every identifier given to kill resolves to an active
\* entry, kill requests the termination of the process of each resolved entry
\* exactly once and every resolved entry whose process is running is killed,
\* also when the process of another resolved entry has already exited.
C20_KillEachOnce ==
    [][\A revs \in KillArgs :
          (Kill(revs) /\ \A id \in revs : ~Unresolved(id))
          => /\ ret'.op = "kill"
             /\ Len(ret'.requested) = Cardinality(ResolvedActive(revs))
             /\ \A rev \in ResolvedActive(revs) :
                   /\ Count(ret'.requested, rev) = 1
                   /\ proc[rev] = "running" => proc'[rev] = "killed"]_vars

\* C14 as claimed: when _remove_revs removes the stash records of the given
\* revisions, no undelivered broker message of one of these revisions is
\* left, also when the scan or a rejection has failed or a worker has taken a
\* message meanwhile; and only messages of the given revisions are rejected.
C14_NoDanglingMessage ==
    /\ [][RemoveRevsFinally
            => \A rev \in call[1].arg :
                  /\ rev \notin SeqToSet(stash')
                  /\ ~InQueued(rev)']_vars
    /\ [][\A ok \in BOOLEAN :
            RemoveRevsStep(ok)
            => \A i \in 1..Len(queued) :
                  queued[i] \notin SeqToSet(queued') => queued[i].rev \in call[1].arg]_vars

\* C19 as claimed: with the reads of get_result interleaved with a worker
\* that delivers and completes tasks, get_result never raises "Invalid
\* experiment." for an entry that was put, whose stash record is not removed
\* and whose job has finished with a collected info record.
C19_NeverInvalidWhenCollected ==
    (ret.op = "get_result" /\ ret.outcome = "Invalid")
    => \A rev \in ret.args :
          ~(rev \in PutRevs /\ rev \in SeqToSet(stash) /\ InDone(rev) /\ Collected(rev))

\* The executions of the current reproduce call, in order.
Executed == SelectSeq(trace, LAMBDA e : e.ev = "reproduce")

\* The stash as it was when the current reproduce call began.
StashAtStart == trace[1].rev

\* Number of events of a kind for an entry in the current reproduce call.
EventCount(ev, rev) ==
    Cardinality({ i \in 1..Len(trace) : trace[i].ev = ev /\ trace[i].rev = rev })

\* reproduce has returned (without raising).
ReproduceReturned == ret.op = "reproduce" /\ ret.outcome = "ok"

\* C15: on the synchronous queue the stash holds the entries in the order of
\* their puts and reproduce executes them in that order, oldest first; when
\* reproduce returns and every execution was collected, every stashed entry
\* was executed and the returned mapping holds the resulting hash of each.
C15_ReproduceFifo ==
    /\ \A i, j \in 1..Len(stash) : i < j => PutIndex(stash[i]) < PutIndex(stash[j])
    /\ trace # << >>
       => /\ Len(Executed) <= Len(StashAtStart)
          /\ \A i \in 1..Len(Executed) : Executed[i].rev = StashAtStart[i]
          /\ \A i, j \in 1..Len(Executed) :
                i < j => PutIndex(Executed[i].rev) < PutIndex(Executed[j].rev)
    /\ (ReproduceReturned /\ \A i \in 1..Len(Executed) : Executed[i].outcome = "collected")
       => /\ Len(Executed) = Len(StashAtStart)
          /\ DOMAIN ret.result = SeqToSet(StashAtStart)
          /\ \A rev \in SeqToSet(StashAtStart) :
                ret.result[rev] = { <<ExpRev(rev), ExpHash(rev)>> }

\* C15 witness: after put(A); put(B), reproduce has executed A, then B, both
\* collected, and returned a mapping with both hashes.
C15_Witness ==
    /\ ReproduceReturned
    /\ Len(Executed) = 2
    /\ Executed[1] = Event("reproduce", AllRevs[1], "collected")
    /\ Executed[2] = Event("reproduce", AllRevs[2], "collected")
    /\ ret.result[AllRevs[1]] = { <<ExpRev(AllRevs[1]), ExpHash(AllRevs[1])>> }
    /\ ret.result[AllRevs[2]] = { <<ExpRev(AllRevs[2]), ExpHash(AllRevs[2])>> }

\* C16: a get that returns an entry removes exactly that record from the
\* stash, so the stash shrinks with every turn of the loop; a get on the empty
\* stash raises ExpQueueEmptyError, which ends reproduce with a normal
\* return; no entry is executed twice in a call and never more entries than
\* were stashed at its start; when reproduce returns, every entry stashed at
\* its start was executed exactly once and the stash is empty.
C16_GetPops ==
    /\ [][(wpc = "get" /\ wpc' = "entry")
            => /\ stash # << >>
               /\ CurrentEntry' = Head(stash)
               /\ Count(stash', CurrentEntry') = 0
               /\ Len(stash') = Len(stash) - 1
               /\ \A i \in 1..Len(stash') : Count(stash, stash'[i]) = 1]_vars
    /\ [][(wpc = "get" /\ stash = << >> /\ trace' # trace)
            => /\ trace' = Append(trace, Event("get", NoName, "ExpQueueEmptyError"))
               /\ wpc' = "idle"
               /\ ret'.op = "reproduce"
               /\ ret'.outcome = "ok"
               /\ ret'.result = results
               /\ stash' = << >>]_vars
    /\ [](trace # << >>
            => /\ Len(Executed) <= Len(StashAtStart)
               /\ \A rev \in Revs : EventCount("reproduce", rev) <= 1)
    /\ [](ReproduceReturned
            => /\ stash = << >>
               /\ Len(Executed) = Len(StashAtStart)
               /\ \A rev \in SeqToSet(StashAtStart) : EventCount("reproduce", rev) = 1)

\* C16 witness: reproduce on two stashed entries has returned after two
\* executions and the get that found the stash empty.
C16_Witness ==
    /\ ReproduceReturned
    /\ Len(StashAtStart) = 2
    /\ Len(Executed) = 2
    /\ trace[Len(trace)] = Event("get", NoName, "ExpQueueEmptyError")
    /\ stash = << >>

\* C17 as claimed: an execution that ends with CheckpointKilledError is the
\* last of its reproduce call: no further stashed entry is executed after it.
C17_KilledShortCircuits ==
    \A i, j \in 1..Len(Executed) : i < j => Executed[i].outcome # "killed"

\* C18: whenever reproduce is not inside the execution of an entry (it is
\* about to get the next entry, has returned or has raised), no executor is
\* left to clean up and every entry got in the call has exactly one cleanup,
\* right after its execution; inside an execution the one executor
\* outstanding is that of the entry being executed, not yet cleaned up.
C18_CleanupOnce ==
    /\ wpc # "entry"
       => /\ executor = << >>
          /\ \A rev \in Revs :
                /\ EventCount("cleanup", rev) = EventCount("get", rev)
                /\ EventCount("cleanup", rev) = EventCount("reproduce", rev)
                /\ EventCount("cleanup", rev) <= 1
          /\ \A i \in 1..Len(trace) :
                trace[i].ev = "reproduce"
                => /\ i < Len(trace)
                   /\ trace[i + 1] = Event("cleanup", trace[i].rev, "ok")
    /\ wpc = "entry"
       => /\ executor = << CurrentEntry >>
          /\ EventCount("cleanup", CurrentEntry) = 0

\* C18 witness: the execution of the second entry ended with an unexpected
\* exception; reproduce has raised DvcException and the executor of that
\* entry was cleaned up before.
C18_Witness ==
    /\ ret.op = "reproduce"
    /\ ret.outcome = "DvcException"
    /\ Len(trace) >= 2
    /\ trace[Len(trace)] = Event("cleanup", AllRevs[2], "ok")
    /\ trace[Len(trace) - 1] = Event("reproduce", AllRevs[2], "error")
    /\ executor = << >>

====
